---- MODULE Spec2Model ----
(***************************************************************************)
(* RIS <-> Retraction Watch overlap: the normalizers, the title filter,    *)
(* the three matchers of utils.py and the Streamlit script of app.py.      *)
(*                                                                         *)
(* A Python string is a sequence of one-character strings; a character     *)
(* outside ASCII is written by its code point ("U+00E9").  Python's None   *)
(* (and pandas' NaN) is NoneVal.  A DataFrame is a record [cols, rows]:    *)
(* the set of its column names and the sequence of its rows, each row a    *)
(* function from the column names to values.                               *)
(*                                                                         *)
(* Spec is the script, run after run, with the cache of the reference      *)
(* dataset; SpecNorm applies the two normalizers, SpecFuzzy the fuzzy      *)
(* matcher and SpecCombine the consolidation of the three tables, each to  *)
(* arguments drawn from bounded sets.                                      *)
(***************************************************************************)
EXTENDS Integers, Sequences, FiniteSets, TLC

VARIABLES
    raw, once, twice,                 \* a normalizer's argument and results
    pc,                               \* the place of the script, or of a call
    now, cache, fetch_log,            \* the clock, st.cache_data's entry, its fetches
    uploaded, run_fuzzy, threshold,   \* the widgets' values, the fuzzy threshold
    rw_df, rw_meta, review_df,
    doi_matches, exact_matches, fuzzy_matches,
    rw_doi, rw_exact, rw_fuzzy,
    combined, combined_unique, csv_rows,
    error                             \* the exception that ended the run and its line

normVars == <<raw, once, twice>>
cacheVars == <<now, cache, fetch_log>>
widgetVars == <<uploaded, run_fuzzy, threshold>>
frameVars == <<rw_df, rw_meta, review_df>>
matchVars == <<doi_matches, exact_matches, fuzzy_matches>>
viewVars == <<rw_doi, rw_exact, rw_fuzzy, combined, combined_unique, csv_rows>>
vars == <<normVars, pc, cacheVars, widgetVars, frameVars, matchVars, viewVars, error>>

\* ------------------------------------------------------------------ bounds

\* Longest raw string of the normalizer runs, in pieces.
MaxPieces == 3

\* ------------------------------------------------------------ characters

NoneVal == <<"<None>">>

UpperChars == <<"A", "B", "C", "D", "E", "F", "G", "H", "I", "J", "K", "L", "M",
                "N", "O", "P", "Q", "R", "S", "T", "U", "V", "W", "X", "Y", "Z",
                "U+00C9">>

LowerChars == <<"a", "b", "c", "d", "e", "f", "g", "h", "i", "j", "k", "l", "m",
                "n", "o", "p", "q", "r", "s", "t", "u", "v", "w", "x", "y", "z",
                "U+00E9">>

Digits == {"0", "1", "2", "3", "4", "5", "6", "7", "8", "9"}

\* Python's str.isspace / the regex class \s.
Whitespace == {" ", "\t", "\n"}

Range(s) == {s[i] : i \in DOMAIN s}

\* The regex class \w of a Python 3 str pattern: Unicode letters, digits, "_".
IsWordChar(c) == c \in Range(UpperChars) \cup Range(LowerChars) \cup Digits \cup {"_"}

\* str.lower(), one character.
LowerChar(c) ==
    IF c \in Range(UpperChars)
    THEN LowerChars[CHOOSE i \in DOMAIN UpperChars : UpperChars[i] = c]
    ELSE c

\* str.lower()
Lower(s) == [i \in DOMAIN s |-> LowerChar(s[i])]

RECURSIVE LStrip(_)
LStrip(s) == IF s # <<>> /\ Head(s) \in Whitespace THEN LStrip(Tail(s)) ELSE s

RECURSIVE RStrip(_)
RStrip(s) ==
    IF s # <<>> /\ s[Len(s)] \in Whitespace THEN RStrip(SubSeq(s, 1, Len(s) - 1)) ELSE s

\* str.strip()
Strip(s) == RStrip(LStrip(s))

\* str.replace(old, ""): every non-overlapping occurrence, left to right.
RECURSIVE Remove(_, _)
Remove(s, old) ==
    IF Len(s) < Len(old) THEN s
    ELSE IF SubSeq(s, 1, Len(old)) = old
         THEN Remove(SubSeq(s, Len(old) + 1, Len(s)), old)
         ELSE <<Head(s)>> \o Remove(Tail(s), old)

RECURSIVE Concat(_)
Concat(ss) == IF ss = <<>> THEN <<>> ELSE Head(ss) \o Concat(Tail(ss))

\* Sequences over S of length at most n.
SeqsUpTo(S, n) == UNION {[1..k -> S] : k \in 0..n}

\* ------------------------------------------------------------ normalizers

Https == <<"h", "t", "t", "p", "s", ":", "/", "/", "d", "o", "i", ".", "o", "r", "g", "/">>
Http == <<"h", "t", "t", "p", ":", "/", "/", "d", "o", "i", ".", "o", "r", "g", "/">>
Dx == <<"h", "t", "t", "p", ":", "/", "/", "d", "x", ".", "d", "o", "i", ".", "o", "r", "g", "/">>
DoiColon == <<"d", "o", "i", ":">>
Nan == <<"n", "a", "n">>
NoneTok == <<"n", "o", "n", "e">>

OrNone(s) == IF s = <<>> THEN NoneVal ELSE s

\* The end of normalize_doi: d is the identifier in lower case, stripped.
RemovePrefixes(d) ==
    IF d \in {<<>>, Nan, NoneTok} THEN NoneVal
    ELSE OrNone(Strip(Remove(Remove(Remove(Remove(d, Https), Http), Dx), DoiColon)))

normalize_doi(doi) ==
    IF doi = NoneVal THEN NoneVal
    ELSE RemovePrefixes(Strip(Lower(doi)))

\* re.sub(r"[\/\-–—]", " ", title)
DashesToSpace(s) ==
    [i \in DOMAIN s |-> IF s[i] \in {"/", "-", "U+2013", "U+2014"} THEN " " ELSE s[i]]

\* re.sub(r"\s+", " ", title)
RECURSIVE CollapseWhitespace(_)
CollapseWhitespace(s) ==
    IF s = <<>> THEN <<>>
    ELSE IF Head(s) \in Whitespace
         THEN <<" ">> \o CollapseWhitespace(LStrip(s))
         ELSE <<Head(s)>> \o CollapseWhitespace(Tail(s))

\* re.sub(r"[^\w\s]", "", title)
StripPunctuation(s) == SelectSeq(s, LAMBDA c : IsWordChar(c) \/ c \in Whitespace)

normalize_title(title) ==
    IF title = NoneVal THEN NoneVal
    ELSE Strip(StripPunctuation(CollapseWhitespace(DashesToSpace(Lower(title)))))

\* ------------------------------------------------------------ title filter

Erratum == <<"e", "r", "r", "a", "t", "u", "m">>

BAD_TITLES ==
    { <<"e", "d", "i", "t", "o", "r", "i", "a", "l">>,
      <<"i", "n", "d", "e", "x">>,
      <<"c", "o", "r", "r", "e", "c", "t", "i", "o", "n">>,
      <<"c", "o", "r", "r", "i", "g", "e", "n", "d", "u", "m">>,
      Erratum,
      <<"r", "e", "p", "l", "y">>,
      <<"r", "e", "s", "p", "o", "n", "s", "e">>,
      <<"c", "o", "m", "m", "e", "n", "t", "a", "r", "y">>,
      <<"l", "e", "t", "t", "e", "r">>,
      <<"n", "e", "w", "s">> }

min_len == 10

filter_bad_titles(title_norm) ==
    IF title_norm = NoneVal \/ title_norm = <<>> THEN FALSE
    ELSE IF title_norm \in BAD_TITLES THEN FALSE
    ELSE IF Len(title_norm) < min_len THEN FALSE
    ELSE TRUE

\* ------------------------------------------------------------- DataFrames

\* An exception raised by an operation, in place of its result.
Raise(kind) == [exception |-> kind]

IsError(v) == "exception" \in DOMAIN v

DataFrame(cols, rows) == [cols |-> cols, rows |-> rows]

\* df[df[col]]: the rows whose boolean column col is True.
BoolIndex(df, col) == DataFrame(df.cols, SelectSeq(df.rows, LAMBDA r : r[col]))

\* df.dropna(subset=[key]); a column the frame does not have is a KeyError.
dropna(df, key) ==
    IF key \notin df.cols THEN Raise("KeyError")
    ELSE DataFrame(df.cols, SelectSeq(df.rows, LAMBDA r : r[key] # NoneVal))

\* df[col] = vals: one value for each row.
AddColumn(df, col, vals) ==
    DataFrame(df.cols \cup {col},
              SubSeq([i \in DOMAIN df.rows |->
                         [c \in df.cols \cup {col} |->
                             IF c = col THEN vals[i] ELSE df.rows[i][c]]],
                     1, Len(df.rows)))

\* df[col] = value: the same value in every row.
AssignColumn(df, col, value) == AddColumn(df, col, [i \in DOMAIN df.rows |-> value])

\* df[cols]: a column the frame does not have is a KeyError.
Project(df, cols) ==
    IF ~(cols \subseteq df.cols) THEN Raise("KeyError")
    ELSE DataFrame(cols, SubSeq([i \in DOMAIN df.rows |-> [c \in cols |-> df.rows[i][c]]],
                                1, Len(df.rows)))

\* The name a column of one side gets in a merge on key with the other side,
\* whose columns are others: the columns both sides have get the suffix.
MergedName(c, key, others, suffix) ==
    IF c # key /\ c \in others THEN c \o suffix ELSE c

MergedCols(left, right, key) ==
    {MergedName(c, key, right.cols, "_ris") : c \in left.cols}
        \cup {MergedName(c, key, left.cols, "_rw") : c \in right.cols}

MergedRow(l, r, left, right, key) ==
    [c \in MergedCols(left, right, key) |->
        IF \E lc \in left.cols : MergedName(lc, key, right.cols, "_ris") = c
        THEN l[CHOOSE lc \in left.cols : MergedName(lc, key, right.cols, "_ris") = c]
        ELSE r[CHOOSE rc \in right.cols : MergedName(rc, key, left.cols, "_rw") = c]]

\* The rows of right that join the row l, in right's order.
RECURSIVE JoinRow(_, _, _, _, _, _)
JoinRow(l, rrows, left, right, key, j) ==
    IF j > Len(rrows) THEN <<>>
    ELSE (IF l[key] = rrows[j][key]
          THEN <<MergedRow(l, rrows[j], left, right, key)>>
          ELSE <<>>) \o JoinRow(l, rrows, left, right, key, j + 1)

RECURSIVE JoinRows(_, _, _, _, _)
JoinRows(left, right, key, i, acc) ==
    IF i > Len(left.rows) THEN acc
    ELSE JoinRows(left, right, key, i + 1,
                  acc \o JoinRow(left.rows[i], right.rows, left, right, key, 1))

\* left.merge(right, on=key, how="inner", suffixes=("_ris", "_rw")): the key
\* order of left is kept, and within a key the order of right.
merge(left, right, key) ==
    DataFrame(MergedCols(left, right, key), JoinRows(left, right, key, 1, <<>>))

Restrict(r, subset) == [c \in subset |-> r[c]]

\* df.drop_duplicates(subset=subset): the first row of each value of subset stays.
RECURSIVE DedupRows(_, _, _, _)
DedupRows(rows, subset, i, acc) ==
    IF i > Len(rows) THEN acc
    ELSE IF \E k \in DOMAIN acc : Restrict(acc[k], subset) = Restrict(rows[i], subset)
         THEN DedupRows(rows, subset, i + 1, acc)
         ELSE DedupRows(rows, subset, i + 1, Append(acc, rows[i]))

drop_duplicates(df, subset) == DataFrame(df.cols, DedupRows(df.rows, subset, 1, <<>>))

\* --------------------------------------------------------------- matchers

\* left.merge(right, ...) of the two sides without their rows of no key.
MergeDropped(left, right, key) ==
    IF IsError(left) THEN left
    ELSE IF IsError(right) THEN right
    ELSE merge(left, right, key)

\* matched["match_type"] = tag
Tagged(matched, tag) ==
    IF IsError(matched) THEN matched ELSE AssignColumn(matched, "match_type", tag)

match_by_doi(review, rw, key) ==
    Tagged(MergeDropped(dropna(review, key), dropna(rw, key), key), "doi")

\* The statement commented out, as it is in match_by_doi.
DedupRecordId_CommentedOut(matched, key) == matched

\* if "Record ID" in matched.columns: matched.drop_duplicates(subset=[key, "Record ID"])
DedupRecordId(matched, key) ==
    IF IsError(matched) THEN matched
    ELSE IF "Record ID" \in matched.cols THEN drop_duplicates(matched, {key, "Record ID"})
    ELSE matched

match_by_title_exact(review, rw, key) ==
    Tagged(DedupRecordId(MergeDropped(dropna(review, key), dropna(rw, key), key), key),
           "title_exact")

\* ------------------------------------------- rapidfuzz: token_set_ratio

\* Code points in increasing order, for the characters a title can hold once
\* normalized (and the capitals).
CharOrder == <<"0", "1", "2", "3", "4", "5", "6", "7", "8", "9",
               "A", "B", "C", "D", "E", "F", "G", "H", "I", "J", "K", "L", "M",
               "N", "O", "P", "Q", "R", "S", "T", "U", "V", "W", "X", "Y", "Z",
               "_",
               "a", "b", "c", "d", "e", "f", "g", "h", "i", "j", "k", "l", "m",
               "n", "o", "p", "q", "r", "s", "t", "u", "v", "w", "x", "y", "z",
               "U+00C9", "U+00E9">>

Ord(c) == CHOOSE i \in DOMAIN CharOrder : CharOrder[i] = c

\* a < b for Python strings.
RECURSIVE StrLess(_, _)
StrLess(a, b) ==
    IF b = <<>> THEN FALSE
    ELSE IF a = <<>> THEN TRUE
    ELSE IF Head(a) = Head(b) THEN StrLess(Tail(a), Tail(b))
    ELSE Ord(Head(a)) < Ord(Head(b))

\* str.split(): the maximal runs of characters that are not whitespace.
RECURSIVE Split(_, _, _)
Split(s, word, acc) ==
    IF s = <<>> THEN (IF word = <<>> THEN acc ELSE Append(acc, word))
    ELSE IF Head(s) \in Whitespace
         THEN Split(Tail(s), <<>>, IF word = <<>> THEN acc ELSE Append(acc, word))
         ELSE Split(Tail(s), Append(word, Head(s)), acc)

Tokens(s) == Range(Split(s, <<>>, <<>>))

\* sorted(tokens)
RECURSIVE Sorted(_)
Sorted(S) ==
    IF S = {} THEN <<>>
    ELSE LET least == CHOOSE t \in S : \A u \in S \ {t} : StrLess(t, u)
         IN  <<least>> \o Sorted(S \ {least})

\* " ".join(words)
RECURSIVE Join(_)
Join(words) ==
    IF words = <<>> THEN <<>>
    ELSE IF Len(words) = 1 THEN Head(words)
    ELSE Head(words) \o <<" ">> \o Join(Tail(words))

Max(a, b) == IF a >= b THEN a ELSE b

MaxOf(S) == CHOOSE x \in S : \A y \in S : y <= x

\* One row of the longest-common-subsequence table, from prev, the row of the
\* characters before c: entry j is the most, over k <= j, of prev[k] and of
\* prev[k - 1] + 1 where c = t[k].
LcsRow(prev, c, t) ==
    SubSeq([j \in DOMAIN t |->
               MaxOf({Max(prev[k],
                          (IF k = 1 THEN 0 ELSE prev[k - 1]) + (IF c = t[k] THEN 1 ELSE 0)) :
                      k \in 1..j})],
           1, Len(t))

RECURSIVE LcsRows(_, _, _, _)
LcsRows(s, t, i, prev) ==
    IF i > Len(s) \/ Len(prev) = 0 THEN prev
    ELSE LcsRows(s, t, i + 1, LcsRow(prev, s[i], t))

LcsLen(s, t) ==
    IF t = <<>> THEN 0 ELSE LcsRows(s, t, 1, SubSeq([j \in DOMAIN t |-> 0], 1, Len(t)))[Len(t)]

\* Indel.distance: insertions and deletions only.
indel_distance(s, t) == Len(s) + Len(t) - 2 * LcsLen(s, t)

\* A score is the exact fraction num / den (the library computes it in
\* floating point), in lowest terms.
RECURSIVE Gcd(_, _)
Gcd(a, b) == IF b = 0 THEN a ELSE Gcd(b, a % b)

Lowest(num, den, g) == [num |-> num \div g, den |-> den \div g]

Score(num, den) == Lowest(num, den, Gcd(num, den))

ScoreGeq(a, b) == a.num * b.den >= b.num * a.den

ScoreZero == [num |-> 0, den |-> 1]

ScoreFull == [num |-> 100, den |-> 1]

\* A score against score_cutoff, an integer.
AtLeast(a, score_cutoff) == a.num >= score_cutoff * a.den

OrZero(score, score_cutoff) == IF AtLeast(score, score_cutoff) THEN score ELSE ScoreZero

\* _norm_distance: 100 - 100 * dist / lensum, 0 when under score_cutoff.
norm_distance(dist, lensum, score_cutoff) ==
    OrZero(IF lensum = 0 THEN ScoreFull ELSE Score(100 * (lensum - dist), lensum),
           score_cutoff)

ScoreMax(a, b) == IF ScoreGeq(a, b) THEN a ELSE b

JoinSorted(tokens) == Join(Sorted(tokens))

\* The end of token_set_ratio: sect_len, ab_len, ba_len are the lengths of the
\* joined intersection and differences, gap the space after a non-empty
\* intersection, dist the distance of the two joined differences.
TokenSetRatios(sect_len, gap, ab_len, ba_len, dist, score_cutoff) ==
    IF sect_len = 0
    THEN norm_distance(dist, ab_len + ba_len, score_cutoff)
    ELSE ScoreMax(ScoreMax(norm_distance(dist,
                                         (sect_len + gap + ab_len) + (sect_len + gap + ba_len),
                                         score_cutoff),
                           norm_distance(gap + ab_len, sect_len + (sect_len + gap + ab_len),
                                         score_cutoff)),
                  norm_distance(gap + ba_len, sect_len + (sect_len + gap + ba_len),
                                score_cutoff))

TokenSetJoined(sect_len, diff_ab_joined, diff_ba_joined, score_cutoff) ==
    TokenSetRatios(sect_len, IF sect_len # 0 THEN 1 ELSE 0,
                   Len(diff_ab_joined), Len(diff_ba_joined),
                   indel_distance(diff_ab_joined, diff_ba_joined), score_cutoff)

TokenSetOfTokens(tokens_a, tokens_b, score_cutoff) ==
    IF tokens_a = {} \/ tokens_b = {} THEN ScoreZero
    ELSE IF tokens_a \cap tokens_b # {}
            /\ (tokens_a \ tokens_b = {} \/ tokens_b \ tokens_a = {})
         THEN ScoreFull
    ELSE TokenSetJoined(Len(JoinSorted(tokens_a \cap tokens_b)),
                        JoinSorted(tokens_a \ tokens_b), JoinSorted(tokens_b \ tokens_a),
                        score_cutoff)

\* The scorer fuzz.ratio in place of fuzz.token_set_ratio.
token_set_ratio_PlainRatio(s1, s2, score_cutoff) ==
    norm_distance(indel_distance(s1, s2), Len(s1) + Len(s2), score_cutoff)

token_set_ratio(s1, s2, score_cutoff) ==
    IF s1 = <<>> \/ s2 = <<>> THEN ScoreZero
    ELSE TokenSetOfTokens(Tokens(s1), Tokens(s2), score_cutoff)

\* process.extractOne: the first choice of the best score, if that score
\* reaches score_cutoff; best is the result so far, NoneVal for none.
Better(best, choice, score, score_cutoff) ==
    IF AtLeast(score, score_cutoff) /\ (best = NoneVal \/ ~ScoreGeq(best[2], score))
    THEN <<choice, score>>
    ELSE best

RECURSIVE extractOne(_, _, _, _, _)
extractOne(query, choices, score_cutoff, i, best) ==
    IF i > Len(choices) THEN best
    ELSE extractOne(query, choices, score_cutoff, i + 1,
                    Better(best, choices[i],
                           token_set_ratio(query, choices[i], score_cutoff), score_cutoff))

\* ---------------------------------------------------------- fuzzy matcher

\* Series.unique(): the distinct values, in order of first appearance.
RECURSIVE Unique(_, _)
Unique(s, acc) ==
    IF s = <<>> THEN acc
    ELSE Unique(Tail(s), IF Head(s) \in Range(acc) THEN acc ELSE Append(acc, Head(s)))

Column(df, col) == SubSeq([i \in DOMAIN df.rows |-> df.rows[i][col]], 1, Len(df.rows))

\* rw_df[key].dropna().astype(str).unique().tolist()
rw_titles(rw, key) == Unique(SelectSeq(Column(rw, key), LAMBDA t : t # NoneVal), <<>>)

PairOrNone(res) == IF res = NoneVal THEN <<NoneVal, NoneVal>> ELSE res

\* The pair (matched title, score) of one candidate title; (None, None) for none.
best_match(title, titles, cutoff) ==
    IF title = NoneVal THEN <<NoneVal, NoneVal>>
    ELSE IF Strip(title) = <<>> THEN <<NoneVal, NoneVal>>
    ELSE PairOrNone(extractOne(Strip(title), titles, cutoff, 1, NoneVal))

\* df[key].apply(best_match), one pair for each row.
BestMatches(titles_of_rows, titles, cutoff) ==
    SubSeq([i \in DOMAIN titles_of_rows |-> best_match(titles_of_rows[i], titles, cutoff)],
           1, Len(titles_of_rows))

\* The two new columns, the rows with a match, the tag.
FuzzyFrame(review, best) ==
    AssignColumn(
        dropna(AddColumn(AddColumn(review, "matched_title_norm",
                                   [i \in DOMAIN best |-> best[i][1]]),
                         "title_score", [i \in DOMAIN best |-> best[i][2]]),
               "matched_title_norm"),
        "match_type", "title_fuzzy")

match_by_title_fuzzy(review, rw, key, cutoff) ==
    \* Series.apply on no rows gives an empty Series, not a frame of two
    \* columns, and assigning it to the two new columns raises.
    IF review.rows = <<>> THEN Raise("ValueError")
    ELSE FuzzyFrame(review, BestMatches(Column(review, key), rw_titles(rw, key), cutoff))

\* ------------------------------------------------------------ the script

FUZZY_THRESHOLD == 95

ttl == 24 * 3600

EmptyFrame == DataFrame({}, <<>>)

\* The file uploader's value: no file, or the records of the file.
NoUpload == [present |-> FALSE, records |-> <<>>]

NoMeta == [downloaded_on |-> 0, n_records |-> 0]

NoError == [kind |-> "", line |-> 0]

\* pd.DataFrame(records): a field no record has is no column, but for doi
\* and primary_title, which _read_ris adds.
RisCols(records) == {"doi", "primary_title"} \cup UNION {DOMAIN records[i] : i \in DOMAIN records}

RisFrame(records, cols) ==
    DataFrame(cols,
              SubSeq([i \in DOMAIN records |->
                         [c \in cols |-> IF c \in DOMAIN records[i] THEN records[i][c]
                                         ELSE NoneVal]],
                     1, Len(records)))

\* df["doi_norm"] = df[col].apply(normalize_doi)
WithDoiNorm(df, col) ==
    AddColumn(df, "doi_norm", [i \in DOMAIN df.rows |-> normalize_doi(df.rows[i][col])])

\* df["title_norm"] = df[col].apply(normalize_title)
WithTitleNorm(df, col) ==
    AddColumn(df, "title_norm", [i \in DOMAIN df.rows |-> normalize_title(df.rows[i][col])])

\* df["title_ok"] = df["title_norm"].apply(filter_bad_titles)
WithTitleOk(df) ==
    AddColumn(df, "title_ok",
        [i \in DOMAIN df.rows |-> filter_bad_titles(df.rows[i]["title_norm"])])

\* _read_ris: the records of the upload as a frame, with the three columns
\* the script adds.
read_ris(records) ==
    WithTitleOk(WithTitleNorm(WithDoiNorm(RisFrame(records, RisCols(records)), "doi"),
                              "primary_title"))

\* get_retraction_watch, the body st.cache_data wraps: the CSV as read, with
\* the two normalized columns, and the metadata of the download.
get_retraction_watch(csv, t) ==
    <<WithTitleNorm(WithDoiNorm(csv, "OriginalPaperDOI"), "Title"),
      [downloaded_on |-> t, n_records |-> Len(csv.rows)]>>

\* The argument without the filter: df in place of df[df["title_ok"]].
TitleOkRows_AllRows(df) == df

\* df[df["title_ok"]], the argument of both title matchers.
TitleOkRows(df) == BoolIndex(df, "title_ok")

NoCache == [present |-> FALSE, df |-> EmptyFrame, meta |-> NoMeta, stored_at |-> 0]

\* The function without its decorator: no entry is ever served.
CacheFresh_Undecorated(c, t) == FALSE

\* st.cache_data(ttl=24 * 3600): an entry is served while it is younger than ttl.
CacheFresh(c, t) == c.present /\ t < c.stored_at + ttl

rw_cols == {"Title", "primary_title", "Author", "RetractionNature", "Reason",
            "OriginalPaperDOI", "doi", "urls"}

\* ------------------------------------------------------- bounds and inputs

\* Most records of an uploaded RIS file.
MaxRisRows == 2

\* Most rows of the remote CSV.
MaxRwRows == 2

\* Most steps of the clock, each of TickSeconds.
MaxTicks == 3

TickSeconds == 12 * 3600

Str_10_1_X == <<"1", "0", ".", "1", "/", "X">>
Str_10_1_x == <<"1", "0", ".", "1", "/", "x">>
Str_resolver_10_1_x == Https \o Str_10_1_x
Str_Some_Study == <<"S", "o", "m", "e", " ", "S", "t", "u", "d", "y">>
Str_some_dash_study == <<"s", "o", "m", "e", "-", "s", "t", "u", "d", "y">>
Str_Some_study == <<"S", "o", "m", "e", " ", "s", "t", "u", "d", "y">>
Str_Erratum == <<"E", "r", "r", "a", "t", "u", "m">>

\* The records a RIS file is made of, as rispy gives them.
RisPool ==
    { [doi |-> Str_10_1_X, primary_title |-> Str_Some_Study, urls |-> <<"u", "1">>],
      [primary_title |-> Str_some_dash_study, urls |-> <<"u", "2">>],
      [doi |-> Str_10_1_x, primary_title |-> Str_Erratum, urls |-> <<"u", "3">>] }

Uploads == SeqsUpTo(RisPool, MaxRisRows)

\* The texts of the rows of the remote CSV; row k has the texts of row k - 3.
RwTexts ==
    << [Title |-> Str_Some_study, OriginalPaperDOI |-> Str_resolver_10_1_x,
        Author |-> <<"A">>, Reason |-> <<"R", "1">>],
       [Title |-> Str_Erratum, OriginalPaperDOI |-> Str_10_1_x,
        Author |-> <<"B">>, Reason |-> <<"R", "2">>],
       [Title |-> Str_Some_Study, OriginalPaperDOI |-> NoneVal,
        Author |-> <<"C">>, Reason |-> <<"R", "1">>] >>

\* Row k of the remote CSV, under its own record number.
RwRecord(k) ==
    [c \in {"Record ID", "Title", "OriginalPaperDOI", "doi", "Author", "Reason",
            "RetractionNature"} |->
        CASE c = "Record ID" -> k
          [] c = "doi" -> RwTexts[((k - 1) % 3) + 1].OriginalPaperDOI
          [] c = "RetractionNature" -> <<"R">>
          [] OTHER -> RwTexts[((k - 1) % 3) + 1][c]]

RwRequiredCols == {"Title", "OriginalPaperDOI", "Author", "Reason", "RetractionNature"}

\* The columns a CSV may have besides.
RwOptionalCols == {"Record ID", "doi"}

\* What the remote file may hold at a download: its first n rows, under one
\* of the headers.
RemoteCsvs ==
    { DataFrame(RwRequiredCols \cup opt,
                [k \in 1..n |-> Restrict(RwRecord(k), RwRequiredCols \cup opt)]) :
        n \in 0..MaxRwRows, opt \in SUBSET RwOptionalCols }

\* ----------------------------------------------------------------- a run

Idle == pc \in {"idle", "stopped", "error", "filtered"}

\* A rerun of the script, from its first line.
StartRun ==
    /\ Idle
    /\ uploaded' = NoUpload
    /\ run_fuzzy' = FALSE
    /\ pc' = "load"
    /\ error' = NoError
    /\ review_df' = EmptyFrame
    /\ doi_matches' = EmptyFrame
    /\ exact_matches' = EmptyFrame
    /\ fuzzy_matches' = EmptyFrame
    /\ rw_doi' = EmptyFrame
    /\ rw_exact' = EmptyFrame
    /\ rw_fuzzy' = EmptyFrame
    /\ UNCHANGED <<normVars, cacheVars, threshold, rw_df, rw_meta,
                   combined, combined_unique, csv_rows>>

\* Time passes between runs.
Tick ==
    /\ Idle
    /\ now < MaxTicks * TickSeconds
    /\ now' = now + TickSeconds
    /\ UNCHANGED <<normVars, pc, cache, fetch_log, widgetVars, frameVars, matchVars,
                   viewVars, error>>

\* Lines 89-90 on a cache hit: the stored value is served, nothing is fetched.
LoadCached ==
    /\ pc = "load"
    /\ CacheFresh(cache, now)
    /\ rw_df' = WithTitleOk(cache.df)
    /\ rw_meta' = cache.meta
    /\ pc' = "options"
    /\ UNCHANGED <<normVars, cacheVars, widgetVars, review_df, matchVars, viewVars, error>>

\* The value got of get_retraction_watch is stored and returned.
Store(got) ==
    /\ cache' = [present |-> TRUE, df |-> got[1], meta |-> got[2], stored_at |-> now]
    /\ rw_df' = WithTitleOk(got[1])
    /\ rw_meta' = got[2]

\* Lines 89-90 on a cache miss: the function runs, its value is stored.
LoadFetch ==
    /\ pc = "load"
    /\ ~CacheFresh(cache, now)
    /\ \E csv \in RemoteCsvs : Store(get_retraction_watch(csv, now))
    /\ fetch_log' = Append(fetch_log, now)
    /\ pc' = "options"
    /\ UNCHANGED <<normVars, now, widgetVars, review_df, matchVars, viewVars, error>>

\* Line 89 on a cache miss when pd.read_csv raises: nothing is stored.
LoadFetchFails ==
    /\ pc = "load"
    /\ ~CacheFresh(cache, now)
    /\ pc' = "error"
    /\ error' = [kind |-> "URLError", line |-> 89]
    /\ UNCHANGED <<normVars, cacheVars, widgetVars, frameVars, matchVars, viewVars>>

\* Lines 94-127: the widgets give what the user has set; without a file the
\* script stops, with one it is read.
ReadUpload ==
    /\ pc = "options"
    /\ \/ /\ uploaded' = NoUpload
          /\ pc' = "stopped"
          /\ UNCHANGED <<run_fuzzy, review_df>>
       \/ \E u \in Uploads :
             /\ uploaded' = [present |-> TRUE, records |-> u]
             /\ run_fuzzy' \in BOOLEAN
             /\ review_df' = read_ris(u)
             /\ pc' = "match_doi"
    /\ UNCHANGED <<normVars, cacheVars, threshold, rw_df, rw_meta, matchVars, viewVars,
                   error>>

\* The statement of a line raises: the run ends with the exception.
Raised(m, line) ==
    /\ pc' = "error"
    /\ error' = [kind |-> m.exception, line |-> line]

DoiMatched(m) ==
    IF IsError(m)
    THEN Raised(m, 135) /\ UNCHANGED doi_matches
    ELSE doi_matches' = m /\ pc' = "match_exact" /\ UNCHANGED error

\* Line 135.
MatchDoi ==
    /\ pc = "match_doi"
    /\ DoiMatched(match_by_doi(review_df, rw_df, "doi"))
    /\ UNCHANGED <<normVars, cacheVars, widgetVars, frameVars, exact_matches,
                   fuzzy_matches, viewVars>>

ExactMatched(m) ==
    IF IsError(m)
    THEN Raised(m, 136) /\ UNCHANGED exact_matches
    ELSE exact_matches' = m /\ pc' = "match_fuzzy" /\ UNCHANGED error

\* Line 136.
MatchExact ==
    /\ pc = "match_exact"
    /\ ExactMatched(match_by_title_exact(TitleOkRows(review_df), TitleOkRows(rw_df),
                                         "title_norm"))
    /\ UNCHANGED <<normVars, cacheVars, widgetVars, frameVars, doi_matches,
                   fuzzy_matches, viewVars>>

FuzzyMatched(m) ==
    IF IsError(m)
    THEN Raised(m, 139) /\ UNCHANGED fuzzy_matches
    ELSE fuzzy_matches' = m /\ pc' = "filter" /\ UNCHANGED error

\* Lines 138-145.
MatchFuzzy ==
    /\ pc = "match_fuzzy"
    /\ FuzzyMatched(IF run_fuzzy
                    THEN match_by_title_fuzzy(TitleOkRows(review_df), TitleOkRows(rw_df),
                                              "title_norm", threshold)
                    ELSE EmptyFrame)
    /\ UNCHANGED <<normVars, cacheVars, widgetVars, frameVars, doi_matches,
                   exact_matches, viewVars>>

\* The three tables of lines 155-161, each the table or the exception of its
\* statement; the first exception ends the run.
Filtered(d, e, f) ==
    IF IsError(d)
    THEN Raised(d, 155) /\ UNCHANGED <<rw_doi, rw_exact, rw_fuzzy>>
    ELSE IF IsError(e)
    THEN Raised(e, 156) /\ rw_doi' = d /\ UNCHANGED <<rw_exact, rw_fuzzy>>
    ELSE IF IsError(f)
    THEN Raised(f, 159) /\ rw_doi' = d /\ rw_exact' = e /\ UNCHANGED rw_fuzzy
    ELSE /\ pc' = "filtered"
         /\ rw_doi' = d
         /\ rw_exact' = e
         /\ rw_fuzzy' = f
         /\ UNCHANGED error

\* Lines 154-161: the three tables cut to rw_cols.
Filter ==
    /\ pc = "filter"
    /\ Filtered(Project(doi_matches, rw_cols), Project(exact_matches, rw_cols),
                IF run_fuzzy /\ fuzzy_matches.rows # <<>>
                THEN Project(fuzzy_matches, rw_cols)
                ELSE DataFrame(rw_cols, <<>>))
    /\ UNCHANGED <<normVars, cacheVars, widgetVars, frameVars, matchVars,
                   combined, combined_unique, csv_rows>>

NormQuiet ==
    /\ raw = NoneVal
    /\ once = NoneVal
    /\ twice = NoneVal

CacheQuiet ==
    /\ now = 0
    /\ cache = NoCache
    /\ fetch_log = <<>>

WidgetQuiet ==
    /\ uploaded = NoUpload
    /\ run_fuzzy = FALSE

FrameQuiet ==
    /\ rw_df = EmptyFrame
    /\ rw_meta = NoMeta
    /\ review_df = EmptyFrame

MatchQuiet ==
    /\ doi_matches = EmptyFrame
    /\ exact_matches = EmptyFrame
    /\ fuzzy_matches = EmptyFrame

TableQuiet ==
    /\ rw_doi = EmptyFrame
    /\ rw_exact = EmptyFrame
    /\ rw_fuzzy = EmptyFrame

ViewQuiet ==
    /\ combined = EmptyFrame
    /\ combined_unique = EmptyFrame
    /\ csv_rows = <<>>

\* The server is up, nothing is cached, no run has started.
Init ==
    /\ NormQuiet
    /\ pc = "idle"
    /\ CacheQuiet
    /\ WidgetQuiet
    /\ threshold = FUZZY_THRESHOLD
    /\ FrameQuiet
    /\ MatchQuiet
    /\ TableQuiet
    /\ ViewQuiet
    /\ error = NoError

\* Every run ends at line 135 or at line 156 (see Filter), so the lines after
\* are no step of a run; they are the steps of SpecCombine.
Next ==
    \/ StartRun
    \/ Tick
    \/ LoadCached
    \/ LoadFetch
    \/ LoadFetchFails
    \/ ReadUpload
    \/ MatchDoi
    \/ MatchExact
    \/ MatchFuzzy
    \/ Filter

Spec == Init /\ [][Next]_vars

\* ---------------------------------------------- the normalizers, applied

DoiPieces == {Https, Http, Dx, DoiColon, <<"d", "o">>, <<"i", ":">>, Nan, NoneTok,
              <<" ">>, <<"1", "0", ".", "1", "/", "X">>}

TitlePieces == {<<"a">>, <<"B">>, <<" ">>, <<".">>, <<"-">>, <<"_">>, <<"1">>,
                <<"\t">>, <<"U+00C9">>, <<"U+2013">>}

RawInputs ==
    {NoneVal} \cup {Concat(ps) : ps \in SeqsUpTo(DoiPieces \cup TitlePieces, MaxPieces)}

InitNorm ==
    /\ raw \in RawInputs
    /\ once = NoneVal
    /\ twice = NoneVal
    /\ pc = "input"
    /\ CacheQuiet
    /\ WidgetQuiet
    /\ threshold = FUZZY_THRESHOLD
    /\ FrameQuiet
    /\ MatchQuiet
    /\ TableQuiet
    /\ ViewQuiet
    /\ error = NoError

NormalizeDoi ==
    /\ pc = "input"
    /\ once' = normalize_doi(raw)
    /\ pc' = "doi"
    /\ UNCHANGED <<raw, twice, cacheVars, widgetVars, frameVars, matchVars, viewVars, error>>

NormalizeDoiAgain ==
    /\ pc = "doi"
    /\ twice' = normalize_doi(once)
    /\ pc' = "doi_again"
    /\ UNCHANGED <<raw, once, cacheVars, widgetVars, frameVars, matchVars, viewVars, error>>

NormalizeTitle ==
    /\ pc = "input"
    /\ once' = normalize_title(raw)
    /\ pc' = "title"
    /\ UNCHANGED <<raw, twice, cacheVars, widgetVars, frameVars, matchVars, viewVars, error>>

NextNorm == NormalizeDoi \/ NormalizeDoiAgain \/ NormalizeTitle

SpecNorm == InitNorm /\ [][NextNorm]_vars

\* ------------------------------------------- the fuzzy matcher, applied

\* Most rows of the candidate frame of a call.
MaxCandidates == 2

\* Most rows of the reference frame of a call.
MaxReferences == 2

Str_effects_in_rats ==
    <<"t", "h", "e", " ", "e", "f", "f", "e", "c", "t", "s", " ", "o", "f", " ", "x",
      " ", "o", "n", " ", "y", " ", "i", "n", " ", "r", "a", "t", "s">>
Str_effects_rats ==
    <<"e", "f", "f", "e", "c", "t", "s", " ", "o", "f", " ", "x", " ", "o", "n", " ",
      "y", " ", "r", "a", "t", "s">>
Str_some_study_a == <<"s", "o", "m", "e", " ", "s", "t", "u", "d", "y", " ", "a">>
Str_some_study_b == <<"s", "o", "m", "e", " ", "s", "t", "u", "d", "y", " ", "b">>
Str_some_study == <<"s", "o", "m", "e", " ", "s", "t", "u", "d", "y">>

\* Normalized titles of candidates: two texts, the empty title, no title.
CandidateTitles == {Str_effects_in_rats, Str_some_study_a, <<>>, NoneVal}

ReferenceTitles == {Str_effects_rats, Str_some_study_b, Str_some_study}

CandidateRow(t) == [primary_title |-> t, title_norm |-> t, doi |-> NoneVal, urls |-> <<"u">>]

ReferenceRow(t) ==
    [Title |-> t, title_norm |-> t, Author |-> <<"A">>, Reason |-> <<"R">>,
     RetractionNature |-> <<"R">>, OriginalPaperDOI |-> NoneVal]

CandidateFrames ==
    {DataFrame({"primary_title", "title_norm", "doi", "urls"},
               [i \in DOMAIN ts |-> CandidateRow(ts[i])]) :
        ts \in SeqsUpTo(CandidateTitles, MaxCandidates)}

ReferenceFrames ==
    {DataFrame({"Title", "title_norm", "Author", "Reason", "RetractionNature",
                "OriginalPaperDOI"},
               [i \in DOMAIN ts |-> ReferenceRow(ts[i])]) :
        ts \in SeqsUpTo(ReferenceTitles, MaxReferences)}

\* The thresholds of the calls: the default of the function, the script's, the most.
Thresholds == {90, FUZZY_THRESHOLD, 100}

InitFuzzy ==
    /\ NormQuiet
    /\ pc = "fuzzy_call"
    /\ CacheQuiet
    /\ WidgetQuiet
    /\ threshold \in Thresholds
    /\ review_df \in CandidateFrames
    /\ rw_df \in ReferenceFrames
    /\ rw_meta = NoMeta
    /\ MatchQuiet
    /\ TableQuiet
    /\ ViewQuiet
    /\ error = NoError

FuzzyReturned(m) ==
    IF IsError(m)
    THEN Raised(m, 156) /\ UNCHANGED fuzzy_matches
    ELSE fuzzy_matches' = m /\ pc' = "fuzzy_done" /\ UNCHANGED error

\* match_by_title_fuzzy(review_df, rw_df, threshold=threshold)
CallFuzzy ==
    /\ pc = "fuzzy_call"
    /\ FuzzyReturned(match_by_title_fuzzy(review_df, rw_df, "title_norm", threshold))
    /\ UNCHANGED <<normVars, cacheVars, widgetVars, frameVars, doi_matches,
                   exact_matches, viewVars>>

NextFuzzy == CallFuzzy

SpecFuzzy == InitFuzzy /\ [][NextFuzzy]_vars

\* -------------------------------------------- the consolidation, applied

\* Most rows of each of the three tables.
MaxMatches == 2

\* A row of a table cut to rw_cols: a reference row and the candidate it matched.
MatchRow(title, author, reason) ==
    [Title |-> title, primary_title |-> Str_Some_Study, Author |-> author,
     RetractionNature |-> <<"R">>, Reason |-> reason,
     OriginalPaperDOI |-> Str_resolver_10_1_x, doi |-> Str_10_1_X, urls |-> <<"u", "1">>]

\* Two rows that differ in Author and Reason only, and one of another title.
MatchRows ==
    { MatchRow(Str_Some_study, <<"A">>, <<"R", "1">>),
      MatchRow(Str_Some_study, <<"B">>, <<"R", "2">>),
      MatchRow(Str_Some_Study, <<"A">>, <<"R", "1">>) }

Tables == {DataFrame(rw_cols, rows) : rows \in SeqsUpTo(MatchRows, MaxMatches)}

InitCombine ==
    /\ NormQuiet
    /\ pc = "combine"
    /\ CacheQuiet
    /\ WidgetQuiet
    /\ threshold = FUZZY_THRESHOLD
    /\ FrameQuiet
    /\ MatchQuiet
    /\ rw_doi \in Tables
    /\ rw_exact \in Tables
    /\ rw_fuzzy \in Tables
    /\ ViewQuiet
    /\ error = NoError

\* pd.concat([...], ignore_index=True): the rows of the frames, in order.
concat(a, b, c) == DataFrame(a.cols \cup b.cols \cup c.cols, a.rows \o b.rows \o c.rows)

\* Lines 178-188: the three tables, each tagged, one under the other; the
\* drop_duplicates on ["doi", "Title", "match_type"] is commented out.
Combine ==
    /\ pc = "combine"
    /\ combined' = concat(AssignColumn(rw_doi, "match_type", "doi"),
                          AssignColumn(rw_exact, "match_type", "title_exact"),
                          AssignColumn(rw_fuzzy, "match_type", "title_fuzzy"))
    /\ pc' = "tabs"
    /\ UNCHANGED <<normVars, cacheVars, widgetVars, frameVars, matchVars,
                   rw_doi, rw_exact, rw_fuzzy, combined_unique, csv_rows, error>>

\* Lines 210-215, the tab "All matches - unique": drop_duplicates() without
\* a subset compares whole rows.
ShowUnique ==
    /\ pc = "tabs"
    /\ IF Len(combined.rows) = 0
       THEN UNCHANGED combined_unique
       ELSE combined_unique' = drop_duplicates(combined, combined.cols)
    /\ pc' = "download"
    /\ UNCHANGED <<normVars, cacheVars, widgetVars, frameVars, matchVars,
                   rw_doi, rw_exact, rw_fuzzy, combined, csv_rows, error>>

\* The columns of combined, in their order.
csv_header ==
    <<"Title", "primary_title", "Author", "RetractionNature", "Reason",
      "OriginalPaperDOI", "doi", "urls", "match_type">>

\* df.to_csv(index=False): the header, then a line for each row.
to_csv(df) ==
    <<csv_header>> \o [i \in DOMAIN df.rows |->
                          [k \in DOMAIN csv_header |-> df.rows[i][csv_header[k]]]]

\* Line 224: the download is of combined, not of combined_unique.
Download ==
    /\ pc = "download"
    /\ csv_rows' = to_csv(combined)
    /\ pc' = "done"
    /\ UNCHANGED <<normVars, cacheVars, widgetVars, frameVars, matchVars,
                   rw_doi, rw_exact, rw_fuzzy, combined, combined_unique, error>>

NextCombine == Combine \/ ShowUnique \/ Download

SpecCombine == InitCombine /\ [][NextCombine]_vars

\* ------------------------------------------------------------------ claims

\* C1: normalize_doi is idempotent: normalizing a normalized identifier again
\* gives the same value (none mapped to none).
C1_Idempotent == pc = "doi_again" => twice = once

TitleCharset == (Range(LowerChars) \ {"U+00E9"}) \cup Digits \cup {"_", " "}

NoDoubleSpace(s) == \A i \in 1..(Len(s) - 1) : ~(s[i] = " " /\ s[i + 1] = " ")

\* C2: a normalized title holds only characters of [a-z0-9_ ] and no two
\* consecutive spaces.
C2_TitleCharset ==
    (pc = "title" /\ raw # NoneVal) =>
        /\ \A i \in DOMAIN once : once[i] \in TitleCharset
        /\ NoDoubleSpace(once)

\* ----------------------------------------------------- claims about a run

\* Line 135 has run: it returned, or it ended the run.
DoiMatchingDone == pc = "match_exact" \/ (pc = "error" /\ error.line = 135)

\* The pairs (candidate row, reference row) of one normalized identifier.
SameDoiNorm ==
    {p \in (DOMAIN review_df.rows) \X (DOMAIN rw_df.rows) :
        /\ review_df.rows[p[1]]["doi_norm"] # NoneVal
        /\ review_df.rows[p[1]]["doi_norm"] = rw_df.rows[p[2]]["doi_norm"]}

\* C3: identifier matching in a run joins on the normalized identifier: it
\* gives one record for each pair of a candidate and a reference row whose
\* identifiers normalize to one value, and none else (candidate '10.1/X' and
\* reference 'https://doi.org/10.1/x': one record).
C3_JoinsOnNormalized ==
    DoiMatchingDone => Len(doi_matches.rows) = Cardinality(SameDoiNorm)

\* A normalized title is eligible: not missing, not empty, of 10 characters
\* or more, none of the stop-words.
Eligible(t) == t # NoneVal /\ t # <<>> /\ Len(t) >= 10 /\ t \notin BAD_TITLES

HasTitle(df, t) == \E i \in DOMAIN df.rows : df.rows[i]["title_norm"] = t

\* C4: in every run every title_exact record joins rows of an eligible
\* normalized title; candidates and references titled 'Erratum' give none.
C4_ExactOnlyEligible ==
    \A i \in DOMAIN exact_matches.rows :
        /\ Eligible(exact_matches.rows[i]["title_norm"])
        /\ normalize_title(exact_matches.rows[i]["primary_title"])
               = exact_matches.rows[i]["title_norm"]
        /\ normalize_title(exact_matches.rows[i]["Title"])
               = exact_matches.rows[i]["title_norm"]
        /\ exact_matches.rows[i]["match_type"] = "title_exact"

C4_Witness ==
    /\ pc = "match_fuzzy"
    /\ exact_matches.rows # <<>>
    /\ HasTitle(review_df, Erratum)
    /\ HasTitle(rw_df, Erratum)

\* The script is past lines 89-90 of a run.
Loaded == pc \in {"options", "match_doi", "match_exact", "match_fuzzy", "filter"}

\* C7: the reference dataset is fetched at most once in a window of 24
\* hours: two fetches are 24 hours apart or more, and a run past the load
\* works on the snapshot of the last fetch, whole, which is younger than 24
\* hours (so a run in the window of a snapshot has fetched nothing, and the
\* first run after it has fetched before it matches).
C7_OneFetchPerWindow ==
    /\ \A i, j \in DOMAIN fetch_log : i < j => fetch_log[j] - fetch_log[i] >= 24 * 3600
    /\ cache.present =>
          /\ fetch_log # <<>>
          /\ cache.stored_at = fetch_log[Len(fetch_log)]
          /\ cache.meta.downloaded_on = cache.stored_at
    /\ Loaded =>
          /\ cache.present
          /\ now - cache.stored_at < 24 * 3600
          /\ rw_meta = cache.meta
          /\ Project(rw_df, cache.df.cols) = cache.df
          /\ Len(rw_df.rows) = cache.meta.n_records

\* A run served from a snapshot fetched earlier, after an earlier snapshot expired.
C7_Witness ==
    /\ pc = "options"
    /\ Len(fetch_log) = 2
    /\ cache.stored_at < now

\* Line 136 has returned.
ExactMatchingDone == pc = "match_fuzzy"

\* The pairs (eligible candidate row, eligible reference row) of one
\* normalized title.
SameTitleNorm ==
    {p \in (DOMAIN review_df.rows) \X (DOMAIN rw_df.rows) :
        /\ review_df.rows[p[1]]["title_ok"]
        /\ rw_df.rows[p[2]]["title_ok"]
        /\ review_df.rows[p[1]]["title_norm"] = rw_df.rows[p[2]]["title_norm"]}

\* The record of exact_matches at k joins the candidate row i and the reference row j.
JoinsPair(k, i, j) ==
    /\ exact_matches.rows[k]["primary_title"] = review_df.rows[i]["primary_title"]
    /\ exact_matches.rows[k]["doi_ris"] = review_df.rows[i]["doi"]
    /\ exact_matches.rows[k]["Title"] = rw_df.rows[j]["Title"]
    /\ exact_matches.rows[k]["Author"] = rw_df.rows[j]["Author"]
    /\ exact_matches.rows[k]["doi_rw"] = rw_df.rows[j]["doi"]

\* C8 as claimed: exact title matching has the fan-out of identifier
\* matching, one record for every pair of an eligible candidate and an
\* eligible reference row of one normalized title, so two candidates that
\* share their title with one reference row give two records.
C8_FullFanOut ==
    ExactMatchingDone =>
        /\ Len(exact_matches.rows) = Cardinality(SameTitleNorm)
        /\ \A p \in SameTitleNorm :
               \E k \in DOMAIN exact_matches.rows : JoinsPair(k, p[1], p[2])

\* The pairs whose record stays: every pair when the reference has no
\* column Record ID, else of the pairs of one title and one Record ID the
\* one of the first candidate row.
KeptPairs ==
    IF "Record ID" \notin rw_df.cols THEN SameTitleNorm
    ELSE {p \in SameTitleNorm :
             \A q \in SameTitleNorm :
                 rw_df.rows[q[2]]["Record ID"] = rw_df.rows[p[2]]["Record ID"]
                     => q[1] >= p[1]}

\* C8: exact title matching gives one record for every pair of an eligible
\* candidate and an eligible reference row of one normalized title, but that
\* with a column Record ID in the reference only the first record of each
\* (normalized title, Record ID) stays: two candidates that share their title
\* with one reference row give one record, of the first candidate, and two
\* records without that column.
C8_FanOutUpToRecordId ==
    ExactMatchingDone =>
        /\ Len(exact_matches.rows) = Cardinality(KeptPairs)
        /\ \A p \in KeptPairs :
               \E k \in DOMAIN exact_matches.rows : JoinsPair(k, p[1], p[2])

C8_Witness ==
    /\ ExactMatchingDone
    /\ "Record ID" \in rw_df.cols
    /\ Cardinality(SameTitleNorm) = 2
    /\ Len(rw_df.rows) = 1
    /\ Len(exact_matches.rows) = 1

\* --------------------------------------- claims about the fuzzy matcher

FuzzyCalled == pc \in {"fuzzy_done", "error"}

\* The call of the example: one candidate, one reference.
IsExample ==
    /\ Column(review_df, "title_norm") = <<Str_effects_in_rats>>
    /\ Column(rw_df, "title_norm") = <<Str_effects_rats>>

\* One record, of the reference title of the example, of a score of min or more.
OneExampleRecord(min) ==
    /\ pc = "fuzzy_done"
    /\ Len(fuzzy_matches.rows) = 1
    /\ fuzzy_matches.rows[1]["matched_title_norm"] = Str_effects_rats
    /\ AtLeast(fuzzy_matches.rows[1]["title_score"], min)

\* C5 as claimed: the example gives one record of score 90 or more at
\* threshold 90, and no record at threshold 100.
C5_NoneAtHundred ==
    (FuzzyCalled /\ IsExample) =>
        /\ threshold = 90 => OneExampleRecord(90)
        /\ threshold = 100 => (pc = "fuzzy_done" /\ fuzzy_matches.rows = <<>>)

\* C5: the example gives one record, of matched title 'effects of x on y
\* rats', at threshold 90 and at threshold 100 as well: the tokens of the
\* reference are among the candidate's, and the token-set ratio is 100.
C5_ExampleScoresHundred ==
    (FuzzyCalled /\ IsExample) =>
        /\ OneExampleRecord(90)
        /\ fuzzy_matches.rows[1]["title_score"] = [num |-> 100, den |-> 1]

C5_Witness ==
    /\ FuzzyCalled
    /\ IsExample
    /\ threshold = 100
    /\ Len(fuzzy_matches.rows) = 1

\* The distinct reference titles of the call.
DistinctReferenceTitles == Range(Column(rw_df, "title_norm")) \ {NoneVal}

ScoresOf(t) == {token_set_ratio(Strip(t), r, 0) : r \in DistinctReferenceTitles}

\* The most of the scores of the candidate title t, 0 without a reference title.
BestScore(t) ==
    IF DistinctReferenceTitles = {} THEN ScoreZero
    ELSE CHOOSE x \in ScoresOf(t) : \A y \in ScoresOf(t) : ScoreGeq(x, y)

\* The candidate row i has a title, and its best score reaches the threshold.
HasMatch(i) ==
    /\ review_df.rows[i]["title_norm"] # NoneVal
    /\ Strip(review_df.rows[i]["title_norm"]) # <<>>
    /\ DistinctReferenceTitles # {}
    /\ AtLeast(BestScore(review_df.rows[i]["title_norm"]), threshold)

\* C9: match_by_title_fuzzy raises nothing and gives one record for each
\* candidate row whose best score over the distinct reference titles reaches
\* the threshold, with that score and a reference title of that score, and
\* none for the other rows: none for an empty title, none at all for no
\* candidates or no reference titles.
C9_OneBestPerCandidate ==
    FuzzyCalled =>
        /\ pc = "fuzzy_done"
        /\ Len(fuzzy_matches.rows) = Cardinality({i \in DOMAIN review_df.rows : HasMatch(i)})
        /\ \A k \in DOMAIN fuzzy_matches.rows :
               /\ fuzzy_matches.rows[k]["matched_title_norm"] \in DistinctReferenceTitles
               /\ fuzzy_matches.rows[k]["title_score"]
                      = BestScore(fuzzy_matches.rows[k]["title_norm"])
               /\ fuzzy_matches.rows[k]["title_score"]
                      = token_set_ratio(Strip(fuzzy_matches.rows[k]["title_norm"]),
                                        fuzzy_matches.rows[k]["matched_title_norm"], 0)

\* C10: a title_fuzzy record carries the fields of the matched reference
\* row with the candidate's, so that line 159 cuts the records to rw_cols.
C10_CarriesReferenceFields ==
    (pc = "fuzzy_done" /\ fuzzy_matches.rows # <<>>) =>
        /\ {"Title", "Author", "RetractionNature", "Reason", "OriginalPaperDOI"}
               \subseteq fuzzy_matches.cols
        /\ ~IsError(Project(fuzzy_matches, rw_cols))

\* ----------------------------------------- claims about the consolidation

\* Two rows of one (identifier, reference title, strategy).
SameKey(r, q) ==
    /\ r["doi"] = q["doi"]
    /\ r["Title"] = q["Title"]
    /\ r["match_type"] = q["match_type"]

\* C6: the view "All matches - unique" has one row for each (identifier,
\* reference title, strategy) of the combined result, and the exported CSV
\* has every row of the combined result.
C6_DedupOnKey ==
    pc = "done" =>
        /\ \A i \in DOMAIN combined.rows :
               \E k \in DOMAIN combined_unique.rows :
                   SameKey(combined_unique.rows[k], combined.rows[i])
        /\ \A k, l \in DOMAIN combined_unique.rows :
               SameKey(combined_unique.rows[k], combined_unique.rows[l]) => k = l
        /\ Len(csv_rows) = Len(combined.rows) + 1
        /\ \A i \in DOMAIN combined.rows :
               \A k \in DOMAIN csv_header :
                   csv_rows[i + 1][k] = combined.rows[i][csv_header[k]]

====
